---------------------------- MODULE Spec2Model ----------------------------
(***************************************************************************)
(* A model of src/netaddress.cpp: CNetAddr (16 stored bytes plus the       *)
(* network tag m_net), its classification predicates, GetNetClass,         *)
(* GetMappedAS, GetGroup, GetReachabilityFrom, and CSubNet (network,       *)
(* netmask, valid) with its three constructors, Match and ToString.        *)
(*                                                                         *)
(* A C array index i is the TLA+ sequence index i + 1.                     *)
(***************************************************************************)
EXTENDS Integers, Sequences, FiniteSets

VARIABLES addr, asmap, subnet, built, ret

vars == <<addr, asmap, subnet, built, ret>>

(***************************************************************************)
(* enum Network (netaddress.h) and the private extensions of               *)
(* GetReachabilityFrom.                                                    *)
(***************************************************************************)
NET_UNROUTABLE == 0
NET_IPV4 == 1
NET_IPV6 == 2
NET_ONION == 3
NET_INTERNAL == 4
NET_MAX == 5
NET_UNKNOWN == NET_MAX + 0
NET_TEREDO == NET_MAX + 1

REACH_UNREACHABLE == 0
REACH_DEFAULT == 1
REACH_TEREDO == 2
REACH_IPV6_WEAK == 3
REACH_IPV4 == 4
REACH_IPV6_STRONG == 5
REACH_PRIVATE == 6

(***************************************************************************)
(* Bounds of the model.                                                    *)
(***************************************************************************)
\* the free low-order octet of an input address ranges over 0..MaxLow and 255
MaxLow == 1
\* prefix lengths range over -MaxExcess .. 128 + MaxExcess
MaxExcess == 2

(***************************************************************************)
(* Byte arithmetic.                                                        *)
(***************************************************************************)
Pow2(k) == 2 ^ k

Bit(x, k) == (x \div Pow2(k)) % 2

BitAnd(x, y) ==
    LET f[k \in 0..8] == IF k = 8 THEN 0
                         ELSE Pow2(k) * Bit(x, k) * Bit(y, k) + f[k + 1]
    IN f[0]

BitOr(x, y) == x + y - BitAnd(x, y)

Fill(n, b) == [i \in 1..n |-> b]

\* std::memcmp(p, q, n) == 0 on the first n bytes
PrefixEq(p, q, n) == \A i \in 1..n : p[i] = q[i]

pchIPv4 == <<0, 0, 0, 0, 0, 0, 0, 0, 0, 0, 255, 255>>
pchOnionCat == <<253, 135, 216, 126, 235, 67>>
g_internal_prefix == <<253, 107, 136, 192, 135, 36>>
pchSingleAddressNetmask == Fill(16, 255)

(***************************************************************************)
(* CNetAddr: a record [m_net, ip].                                         *)
(***************************************************************************)
\* SetLegacyIPv6 without the test for g_internal_prefix
SetLegacyIPv6NoInternal(ipv6) ==
    [m_net |-> IF PrefixEq(ipv6, pchIPv4, 12) THEN NET_IPV4
               ELSE IF PrefixEq(ipv6, pchOnionCat, 6) THEN NET_ONION
               ELSE NET_IPV6,
     ip |-> ipv6]

SetLegacyIPv6(ipv6) ==
    [m_net |-> IF PrefixEq(ipv6, pchIPv4, 12) THEN NET_IPV4
               ELSE IF PrefixEq(ipv6, pchOnionCat, 6) THEN NET_ONION
               ELSE IF PrefixEq(ipv6, g_internal_prefix, 6) THEN NET_INTERNAL
               ELSE NET_IPV6,
     ip |-> ipv6]

\* SetRaw(NET_IPV4, ip_in), ip_in of 4 bytes; SetRaw(NET_IPV6, ip_in), of 16
SetRaw(network, ip_in) ==
    IF network = NET_IPV4
    THEN [m_net |-> NET_IPV4, ip |-> pchIPv4 \o ip_in]
    ELSE SetLegacyIPv6(ip_in)

\* std::memcmp over the first n bytes: negative, zero or positive
MemCmp(p, q, n) ==
    IF \A i \in 1..n : p[i] = q[i]
    THEN 0
    ELSE LET k == CHOOSE i \in 1..n : p[i] # q[i] /\ \A j \in 1..(i - 1) : p[j] = q[j]
         IN IF p[k] < q[k] THEN -1 ELSE 1

\* operator==(const CNetAddr &, const CNetAddr &)
CNetAddrEq(a, b) == a.m_net = b.m_net /\ MemCmp(a.ip, b.ip, 16) = 0

\* operator<(const CNetAddr &, const CNetAddr &)
CNetAddrLess(a, b) ==
    a.m_net < b.m_net \/ (a.m_net = b.m_net /\ MemCmp(a.ip, b.ip, 16) < 0)

\* a default-constructed CNetAddr
DefaultCNetAddr == [m_net |-> NET_IPV6, ip |-> Fill(16, 0)]

SetIP(ipIn) == [m_net |-> ipIn.m_net, ip |-> ipIn.ip]

(***************************************************************************)
(* A std::string is the sequence of its characters.  A setter that returns *)
(* bool is a record [ret, this]: the returned value and the object after   *)
(* the call.                                                               *)
(***************************************************************************)
Rep(c, n) == [i \in 1..n |-> c]
DotOnion == <<".", "o", "n", "i", "o", "n">>

\* CSHA256().Write(name).Finalize(hash), for the names of NameInputs
CSHA256(name) ==
    IF name = <<"x">>
    THEN <<45, 113, 22, 66, 183, 38, 176, 68, 1, 98, 124, 169, 251, 172, 50, 245,
           200, 83, 15, 177, 144, 60, 196, 219, 2, 37, 135, 23, 146, 26, 72, 129>>
    ELSE <<25, 178, 88, 86, 225, 193, 80, 202, 131, 76, 255, 200, 181, 155, 35, 173,
           189, 14, 192, 56, 158, 88, 235, 34, 179, 182, 71, 104, 9, 141, 0, 43>>

SetInternal(this, name) ==
    IF Len(name) = 0
    THEN [ret |-> FALSE, this |-> this]
    ELSE [ret |-> TRUE,
          this |-> [m_net |-> NET_INTERNAL,
                    ip |-> g_internal_prefix
                           \o SubSeq(CSHA256(name), 1, 16 - Len(g_internal_prefix))]]

\* the base-32 alphabet; decode32_table gives -1 for any other character
Base32Chars ==
    <<"a", "b", "c", "d", "e", "f", "g", "h", "i", "j", "k", "l", "m", "n", "o", "p",
      "q", "r", "s", "t", "u", "v", "w", "x", "y", "z", "2", "3", "4", "5", "6", "7">>

decode32_table(c) ==
    IF \E i \in 1..Len(Base32Chars) : Base32Chars[i] = c
    THEN (CHOOSE i \in 1..Len(Base32Chars) : Base32Chars[i] = c) - 1
    ELSE -1

\* the 5-bit values of the characters before the first one outside the alphabet
RECURSIVE Decode32Values(_)
Decode32Values(str) ==
    IF Len(str) = 0 \/ decode32_table(Head(str)) = -1
    THEN <<>>
    ELSE <<decode32_table(Head(str))>> \o Decode32Values(Tail(str))

\* DecodeBase32: the whole octets of the 5-bit values, most significant bit first
DecodeBase32(str) ==
    LET val == Decode32Values(str)
        bit(p) == Bit(val[(p \div 5) + 1], 4 - (p % 5))
    IN [k \in 1..((Len(val) * 5) \div 8) |->
           128 * bit(8 * k - 8) + 64 * bit(8 * k - 7) + 32 * bit(8 * k - 6)
           + 16 * bit(8 * k - 5) + 8 * bit(8 * k - 4) + 4 * bit(8 * k - 3)
           + 2 * bit(8 * k - 2) + bit(8 * k - 1)]

SetSpecial(this, strName) ==
    IF Len(strName) > 6 /\ SubSeq(strName, Len(strName) - 5, Len(strName)) = DotOnion
    THEN LET vchAddr == DecodeBase32(SubSeq(strName, 1, Len(strName) - 6))
         IN IF Len(vchAddr) # 16 - Len(pchOnionCat)
            THEN [ret |-> FALSE, this |-> this]
            ELSE [ret |-> TRUE,
                  this |-> [m_net |-> NET_ONION, ip |-> pchOnionCat \o vchAddr]]
    ELSE [ret |-> FALSE, this |-> this]

GetByte(a, n) == a.ip[16 - n]

IsIPv4(a) == a.m_net = NET_IPV4

IsIPv6(a) == a.m_net = NET_IPV6

IsRFC1918(a) ==
    IsIPv4(a) /\ (\/ GetByte(a, 3) = 10
                  \/ (GetByte(a, 3) = 192 /\ GetByte(a, 2) = 168)
                  \/ (GetByte(a, 3) = 172 /\ GetByte(a, 2) >= 16 /\ GetByte(a, 2) <= 31))

IsRFC2544(a) ==
    IsIPv4(a) /\ GetByte(a, 3) = 198 /\ (GetByte(a, 2) = 18 \/ GetByte(a, 2) = 19)

IsRFC3927(a) == IsIPv4(a) /\ GetByte(a, 3) = 169 /\ GetByte(a, 2) = 254

IsRFC6598(a) ==
    IsIPv4(a) /\ GetByte(a, 3) = 100 /\ GetByte(a, 2) >= 64 /\ GetByte(a, 2) <= 127

IsRFC5737(a) ==
    IsIPv4(a) /\ (\/ (GetByte(a, 3) = 192 /\ GetByte(a, 2) = 0 /\ GetByte(a, 1) = 2)
                  \/ (GetByte(a, 3) = 198 /\ GetByte(a, 2) = 51 /\ GetByte(a, 1) = 100)
                  \/ (GetByte(a, 3) = 203 /\ GetByte(a, 2) = 0 /\ GetByte(a, 1) = 113))

IsRFC3849(a) ==
    IsIPv6(a) /\ GetByte(a, 15) = 32 /\ GetByte(a, 14) = 1
              /\ GetByte(a, 13) = 13 /\ GetByte(a, 12) = 184

IsRFC3964(a) == IsIPv6(a) /\ GetByte(a, 15) = 32 /\ GetByte(a, 14) = 2

IsRFC6052(a) ==
    IsIPv6(a) /\ PrefixEq(a.ip, <<0, 100, 255, 155, 0, 0, 0, 0, 0, 0, 0, 0>>, 12)

IsRFC4380(a) ==
    IsIPv6(a) /\ GetByte(a, 15) = 32 /\ GetByte(a, 14) = 1
              /\ GetByte(a, 13) = 0 /\ GetByte(a, 12) = 0

IsRFC4862(a) == IsIPv6(a) /\ PrefixEq(a.ip, <<254, 128, 0, 0, 0, 0, 0, 0>>, 8)

IsRFC4193(a) == IsIPv6(a) /\ BitAnd(GetByte(a, 15), 254) = 252

IsRFC6145(a) ==
    IsIPv6(a) /\ PrefixEq(a.ip, <<0, 0, 0, 0, 0, 0, 0, 0, 255, 255, 0, 0>>, 12)

IsRFC4843(a) ==
    IsIPv6(a) /\ GetByte(a, 15) = 32 /\ GetByte(a, 14) = 1 /\ GetByte(a, 13) = 0
              /\ BitAnd(GetByte(a, 12), 240) = 16

IsRFC7343(a) ==
    IsIPv6(a) /\ GetByte(a, 15) = 32 /\ GetByte(a, 14) = 1 /\ GetByte(a, 13) = 0
              /\ BitAnd(GetByte(a, 12), 240) = 32

IsHeNet(a) ==
    GetByte(a, 15) = 32 /\ GetByte(a, 14) = 1 /\ GetByte(a, 13) = 4 /\ GetByte(a, 12) = 112

IsTor(a) == a.m_net = NET_ONION

IsInternal(a) == a.m_net = NET_INTERNAL

IsLocal(a) ==
    \/ (IsIPv4(a) /\ (GetByte(a, 3) = 127 \/ GetByte(a, 3) = 0))
    \/ (IsIPv6(a) /\ PrefixEq(a.ip, Fill(15, 0) \o <<1>>, 16))

IsValid(a) ==
    IF IsIPv6(a) /\ PrefixEq(a.ip, Fill(16, 0), 16) THEN FALSE
    ELSE IF IsRFC3849(a) THEN FALSE
    ELSE IF IsInternal(a) THEN FALSE
    ELSE IF IsIPv4(a) /\ SubSeq(a.ip, 13, 16) = Fill(4, 255) THEN FALSE
    ELSE IF IsIPv4(a) /\ SubSeq(a.ip, 13, 16) = Fill(4, 0) THEN FALSE
    ELSE TRUE

\* IsRoutable without its IsValid() conjunct
IsRoutableSkipsIsValid(a) ==
    ~(\/ IsRFC1918(a) \/ IsRFC2544(a) \/ IsRFC3927(a) \/ IsRFC4862(a)
      \/ IsRFC6598(a) \/ IsRFC5737(a) \/ (IsRFC4193(a) /\ ~IsTor(a))
      \/ IsRFC4843(a) \/ IsRFC7343(a) \/ IsLocal(a) \/ IsInternal(a))

IsRoutable(a) ==
    IsValid(a) /\ ~(\/ IsRFC1918(a) \/ IsRFC2544(a) \/ IsRFC3927(a) \/ IsRFC4862(a)
                    \/ IsRFC6598(a) \/ IsRFC5737(a) \/ (IsRFC4193(a) /\ ~IsTor(a))
                    \/ IsRFC4843(a) \/ IsRFC7343(a) \/ IsLocal(a) \/ IsInternal(a))

GetNetwork(a) ==
    IF IsInternal(a) THEN NET_INTERNAL
    ELSE IF ~IsRoutable(a) THEN NET_UNROUTABLE
    ELSE a.m_net

HasLinkedIPv4(a) ==
    IsRoutable(a) /\ (IsIPv4(a) \/ IsRFC6145(a) \/ IsRFC6052(a) \/ IsRFC3964(a) \/ IsRFC4380(a))

(***************************************************************************)
(* A uint32_t read from the address is kept as its four bytes, most        *)
(* significant first (TLC's integers are 32-bit signed):                   *)
(* (x >> 24) & 0xFF is x[1], (x >> 16) & 0xFF is x[2], and bit 31 - i of x *)
(* is bit 7 - (i % 8) of x[(i \div 8) + 1].                                *)
(***************************************************************************)
ReadBE32(ip, ofs) == SubSeq(ip, ofs + 1, ofs + 4)

\* ~x on a uint32_t
Not32(x) == [i \in 1..4 |-> 255 - x[i]]

\* GetLinkedIPv4 without the IsRFC4380 branch
GetLinkedIPv4NoTeredo(a) ==
    IF IsIPv4(a) \/ IsRFC6145(a) \/ IsRFC6052(a) THEN ReadBE32(a.ip, 12)
    ELSE IF IsRFC3964(a) THEN ReadBE32(a.ip, 2)
    ELSE Fill(4, -1)

\* <<-1, -1, -1, -1>> stands for reaching assert(false)
GetLinkedIPv4(a) ==
    IF IsIPv4(a) \/ IsRFC6145(a) \/ IsRFC6052(a) THEN ReadBE32(a.ip, 12)
    ELSE IF IsRFC3964(a) THEN ReadBE32(a.ip, 2)
    ELSE IF IsRFC4380(a) THEN Not32(ReadBE32(a.ip, 12))
    ELSE Fill(4, -1)

GetNetClass(a) ==
    LET net_class == IF IsLocal(a) THEN 255 ELSE NET_IPV6
    IN IF IsInternal(a) THEN NET_INTERNAL
       ELSE IF ~IsRoutable(a) THEN NET_UNROUTABLE
       ELSE IF HasLinkedIPv4(a) THEN NET_IPV4
       ELSE IF IsTor(a) THEN NET_ONION
       ELSE net_class

(***************************************************************************)
(* The AS-mapping oracle Interpret (util/asmap.h): the map is a sequence   *)
(* of entries [prefix, asn]; the result is the asn of the first entry      *)
(* whose prefix the 128 bits start with, 0 when there is none. AS numbers   *)
(* are kept below 2^31.                                                    *)
(***************************************************************************)
Interpret(map, ip_bits) ==
    LET hit == {k \in 1..Len(map) :
                    \A j \in 1..Len(map[k].prefix) : ip_bits[j] = map[k].prefix[j]}
    IN IF hit = {} THEN 0
       ELSE map[CHOOSE k \in hit : \A l \in hit : k <= l].asn

GetMappedAS(a, map) ==
    IF Len(map) = 0 \/ (GetNetClass(a) # NET_IPV4 /\ GetNetClass(a) # NET_IPV6)
    THEN 0
    ELSE LET ipv4 == GetLinkedIPv4(a)
             ip_bits ==
                 IF HasLinkedIPv4(a)
                 THEN [j \in 1..128 |->
                         IF j <= 96
                         THEN Bit(pchIPv4[((j - 1) \div 8) + 1], 7 - ((j - 1) % 8))
                         ELSE Bit(ipv4[((j - 97) \div 8) + 1], 7 - ((j - 97) % 8))]
                 ELSE [j \in 1..128 |->
                         Bit(GetByte(a, 15 - ((j - 1) \div 8)), 7 - ((j - 1) % 8))]
         IN Interpret(map, ip_bits)

\* GetMappedAS gets as far as its call of GetLinkedIPv4
GetMappedASCallsGetLinkedIPv4(a, map) ==
    /\ ~(Len(map) = 0 \/ (GetNetClass(a) # NET_IPV4 /\ GetNetClass(a) # NET_IPV6))
    /\ HasLinkedIPv4(a)

\* the loop of GetGroup with the last byte pushed as stored, no 1's filled in
RECURSIVE PushBitsNoFill(_, _, _, _)
PushBitsNoFill(a, vchRet, nStartByte, nBits) ==
    IF nBits >= 8
    THEN PushBitsNoFill(a, Append(vchRet, GetByte(a, 15 - nStartByte)),
                        nStartByte + 1, nBits - 8)
    ELSE IF nBits > 0
    THEN Append(vchRet, GetByte(a, 15 - nStartByte))
    ELSE vchRet

\* the while loop and the final partial byte of GetGroup
RECURSIVE PushBits(_, _, _, _)
PushBits(a, vchRet, nStartByte, nBits) ==
    IF nBits >= 8
    THEN PushBits(a, Append(vchRet, GetByte(a, 15 - nStartByte)), nStartByte + 1, nBits - 8)
    ELSE IF nBits > 0
    THEN Append(vchRet, BitOr(GetByte(a, 15 - nStartByte), Pow2(8 - nBits) - 1))
    ELSE vchRet

\* the AS number pushed most significant byte first
AsnKeyBigEndian(asn) ==
    <<NET_IPV6>> \o [i \in 1..4 |-> (asn \div Pow2(8 * (4 - i))) % 256]

\* the key of a nonzero asn: NET_IPV6, then (asn >> (8 * i)) & 0xFF for i = 0..3
AsnKey(asn) ==
    <<NET_IPV6>> \o [i \in 1..4 |-> (asn \div Pow2(8 * (i - 1))) % 256]

\* the second and third octets pushed (shifts of 16 and 8)
LinkedIPv4KeyWrongShift(vchRet, ipv4) == vchRet \o <<ipv4[2], ipv4[3]>>

\* the HasLinkedIPv4 branch: (ipv4 >> 24) & 0xFF and (ipv4 >> 16) & 0xFF pushed
LinkedIPv4Key(vchRet, ipv4) == vchRet \o <<ipv4[1], ipv4[2]>>

GetGroup(a, map) ==
    LET asn == GetMappedAS(a, map)
        vchRet == <<GetNetClass(a)>>
    IN IF asn # 0
       THEN AsnKey(asn)
       ELSE IF IsLocal(a) THEN PushBits(a, vchRet, 0, 0)
       ELSE IF IsInternal(a) THEN PushBits(a, vchRet, 6, (16 - 6) * 8)
       ELSE IF ~IsRoutable(a) THEN PushBits(a, vchRet, 0, 0)
       ELSE IF HasLinkedIPv4(a)
       THEN LinkedIPv4Key(vchRet, GetLinkedIPv4(a))
       ELSE IF IsTor(a) THEN PushBits(a, vchRet, 6, 4)
       ELSE IF IsHeNet(a) THEN PushBits(a, vchRet, 0, 36)
       ELSE PushBits(a, vchRet, 0, 32)

\* a null partner pointer
\* GetGroup gets as far as a call of GetLinkedIPv4, its own or GetMappedAS's
GetGroupCallsGetLinkedIPv4(a, map) ==
    \/ GetMappedASCallsGetLinkedIPv4(a, map)
    \/ /\ GetMappedAS(a, map) = 0
       /\ ~IsLocal(a) /\ ~IsInternal(a) /\ IsRoutable(a)
       /\ HasLinkedIPv4(a)

nullptr == [m_net |-> -1, ip |-> <<>>]

\* GetExtNetwork without the IsRFC4380() test
GetExtNetworkNoTeredo(p) ==
    IF p = nullptr THEN NET_UNKNOWN
    ELSE GetNetwork(p)

GetExtNetwork(p) ==
    IF p = nullptr THEN NET_UNKNOWN
    ELSE IF IsRFC4380(p) THEN NET_TEREDO
    ELSE GetNetwork(p)

\* the switch over theirNet and ourNet
ReachSwitch(a, paddrPartner) ==
         LET ourNet == GetExtNetwork(a)
             theirNet == GetExtNetwork(paddrPartner)
             fTunnel == IsRFC3964(a) \/ IsRFC6052(a) \/ IsRFC6145(a)
         IN CASE theirNet = NET_IPV4 ->
                   (CASE ourNet = NET_IPV4 -> REACH_IPV4
                      [] OTHER -> REACH_DEFAULT)
              [] theirNet = NET_IPV6 ->
                   (CASE ourNet = NET_TEREDO -> REACH_TEREDO
                      [] ourNet = NET_IPV4 -> REACH_IPV4
                      [] ourNet = NET_IPV6 ->
                           IF fTunnel THEN REACH_IPV6_WEAK ELSE REACH_IPV6_STRONG
                      [] OTHER -> REACH_DEFAULT)
              [] theirNet = NET_ONION ->
                   (CASE ourNet = NET_IPV4 -> REACH_IPV4
                      [] ourNet = NET_ONION -> REACH_PRIVATE
                      [] OTHER -> REACH_DEFAULT)
              [] theirNet = NET_TEREDO ->
                   (CASE ourNet = NET_TEREDO -> REACH_TEREDO
                      [] ourNet = NET_IPV6 -> REACH_IPV6_WEAK
                      [] ourNet = NET_IPV4 -> REACH_IPV4
                      [] OTHER -> REACH_DEFAULT)
              [] OTHER ->
                   (CASE ourNet = NET_TEREDO -> REACH_TEREDO
                      [] ourNet = NET_IPV6 -> REACH_IPV6_WEAK
                      [] ourNet = NET_IPV4 -> REACH_IPV4
                      [] ourNet = NET_ONION -> REACH_PRIVATE
                      [] OTHER -> REACH_DEFAULT)

\* GetReachabilityFrom without the !IsRoutable() || IsInternal() return
GetReachabilityFromNoShortCircuit(a, paddrPartner) == ReachSwitch(a, paddrPartner)

GetReachabilityFrom(a, paddrPartner) ==
    IF ~IsRoutable(a) \/ IsInternal(a) THEN REACH_UNREACHABLE
    ELSE ReachSwitch(a, paddrPartner)

(***************************************************************************)
(* CSubNet: a record [network, netmask, valid].                            *)
(***************************************************************************)
\* the steps of  for (; n < 128; ++n) netmask[n >> 3] &= ~(1 << (7 - (n & 7)))
\* that fall into one byte: k is n & 7, from the first such step to 7
RECURSIVE ClearByte(_, _)
ClearByte(byte, k) ==
    IF k < 8 THEN ClearByte(BitAnd(byte, 255 - Pow2(7 - k)), k + 1) ELSE byte

\* Clear bits [n..127]: byte x (C index) takes the steps n' >= n with n' >> 3 = x
ClearBits(netmask, n) ==
    [x \in 1..16 |->
        IF n >= 8 * x THEN netmask[x]
        ELSE ClearByte(netmask[x], IF n > 8 * (x - 1) THEN n - 8 * (x - 1) ELSE 0)]

\* for (x = 0; x < 16; ++x) network.ip[x] &= netmask[x]
Normalize(network, netmask) ==
    [network EXCEPT !.ip = [x \in 1..16 |-> BitAnd(network.ip[x], netmask[x])]]

\* the range test against 128 whatever the family
CSubNetPrefixRangeIgnoresOffset(a, mask) ==
    LET astartofs == IF IsIPv4(a) THEN 12 ELSE 0
        inRange == mask >= 0 /\ mask <= 128
        netmask == IF inRange
                   THEN ClearBits(pchSingleAddressNetmask, mask + astartofs * 8)
                   ELSE pchSingleAddressNetmask
    IN [network |-> Normalize(a, netmask), netmask |-> netmask, valid |-> inRange]

\* CSubNet(const CNetAddr &addr, int32_t mask)
CSubNetPrefix(a, mask) ==
    LET astartofs == IF IsIPv4(a) THEN 12 ELSE 0
        inRange == mask >= 0 /\ mask <= (128 - astartofs * 8)
        netmask == IF inRange
                   THEN ClearBits(pchSingleAddressNetmask, mask + astartofs * 8)
                   ELSE pchSingleAddressNetmask
    IN [network |-> Normalize(a, netmask), netmask |-> netmask, valid |-> inRange]

NetmaskBits(x) ==
    CASE x = 0 -> 0
      [] x = 128 -> 1
      [] x = 192 -> 2
      [] x = 224 -> 3
      [] x = 240 -> 4
      [] x = 248 -> 5
      [] x = 252 -> 6
      [] x = 254 -> 7
      [] x = 255 -> 8
      [] OTHER -> -1

\* the scan of the mask's bytes from C index i on: FALSE when it sets valid = false
RECURSIVE MaskScan(_, _, _)
MaskScan(mask, i, zeros_found) ==
    IF i >= 16 THEN TRUE
    ELSE LET num_bits == NetmaskBits(mask.ip[i + 1])
         IN IF num_bits = -1 \/ (zeros_found /\ num_bits # 0) THEN FALSE
            ELSE MaskScan(mask, i + 1, zeros_found \/ num_bits < 8)

(***************************************************************************)
(* CSubNet(const CNetAddr &addr, const CNetAddr &mask). When the scan      *)
(* rejects the mask the constructor returns before netmask is written and  *)
(* before network is normalized: netmask then holds `uninit', the bytes    *)
(* the member had before.                                                  *)
(***************************************************************************)
CSubNetMask(a, mask, uninit) ==
    IF ~MaskScan(mask, IF IsIPv4(mask) THEN 12 ELSE 0, FALSE)
    THEN [network |-> a, netmask |-> uninit, valid |-> FALSE]
    ELSE LET astartofs == IF IsIPv4(a) THEN 12 ELSE 0
             netmask == [x \in 1..16 |-> IF x - 1 >= astartofs THEN mask.ip[x]
                                         ELSE pchSingleAddressNetmask[x]]
         IN [network |-> Normalize(a, netmask), netmask |-> netmask, valid |-> TRUE]

\* valid(true) in place of valid(addr.IsValid())
CSubNetAddrAlwaysValid(a) ==
    [network |-> a, netmask |-> pchSingleAddressNetmask, valid |-> TRUE]

\* CSubNet(const CNetAddr &addr)
CSubNetAddr(a) ==
    [network |-> a, netmask |-> pchSingleAddressNetmask, valid |-> IsValid(a)]

\* the byte loop of Match from C index x on
RECURSIVE MatchBytes(_, _, _)
MatchBytes(sn, a, x) ==
    IF x >= 16 THEN TRUE
    ELSE IF BitAnd(a.ip[x + 1], sn.netmask[x + 1]) # sn.network.ip[x + 1] THEN FALSE
    ELSE MatchBytes(sn, a, x + 1)

\* Match without the !valid test
MatchIgnoresValid(sn, a) ==
    IF ~IsValid(a) \/ sn.network.m_net # a.m_net THEN FALSE
    ELSE MatchBytes(sn, a, 0)

Match(sn, a) ==
    IF ~sn.valid \/ ~IsValid(a) \/ sn.network.m_net # a.m_net THEN FALSE
    ELSE MatchBytes(sn, a, 0)

\* the uint8_t cidr that ToString computes and prints after the '/'
RECURSIVE CidrFrom(_, _, _)
CidrFrom(sn, i, cidr) ==
    IF i >= 16 THEN cidr
    ELSE IF sn.netmask[i + 1] = 0 THEN cidr
    ELSE CidrFrom(sn, i + 1, (cidr + NetmaskBits(sn.netmask[i + 1])) % 256)

\* ToString: the network address (printed by CNetAddr::ToString) and the cidr
ToString(sn) ==
    [network |-> sn.network,
     cidr |-> CidrFrom(sn, IF IsIPv4(sn.network) THEN 12 ELSE 0, 0)]

(***************************************************************************)
(* Inputs.                                                                 *)
(***************************************************************************)
Low == (0..MaxLow) \cup {255}

\* CNetAddr(const struct in_addr &)
V4(b) == SetRaw(NET_IPV4, b)

\* CNetAddr(const struct in6_addr &, scope)
V6(b) == SetRaw(NET_IPV6, b)

V4Heads ==
    { <<0, 0, 0>>, <<255, 255, 255>>, <<127, 0, 0>>, <<10, 0, 0>>, <<8, 8, 8>>,
      <<8, 8, 9>>, <<8, 9, 8>>, <<192, 168, 1>>, <<192, 168, 2>>, <<192, 0, 2>>,
      <<192, 0, 3>>, <<172, 15, 0>>, <<172, 16, 0>>, <<172, 31, 0>>, <<172, 32, 0>>,
      <<198, 18, 0>>, <<198, 19, 0>>, <<198, 20, 0>>, <<198, 51, 100>>,
      <<169, 254, 0>>, <<100, 63, 0>>, <<100, 64, 0>>, <<100, 127, 0>>,
      <<100, 128, 0>>, <<203, 0, 113>>, <<1, 2, 3>> }

V4Inputs == {h \o <<x>> : h \in V4Heads, x \in Low}

OnionHead == pchOnionCat \o <<171, 2, 3, 4, 5, 6>>
InternalHead == g_internal_prefix \o <<17, 34, 51, 68, 85, 102>>
GenericHead == <<42, 0, 20, 80, 64, 1, 0, 0, 0, 0, 0, 0>>
TeredoHead == <<32, 1, 0, 0>> \o Fill(8, 0)
SixToFourHead == <<32, 2, 8, 8, 8, 8>> \o Fill(6, 0)
HeNetHead == <<32, 1, 4, 112, 31, 5>> \o Fill(6, 0)

V6Heads ==
    { Fill(12, 0), pchIPv4, OnionHead, InternalHead, GenericHead, TeredoHead,
      SixToFourHead, HeNetHead,
      pchOnionCat \o <<27, 2, 3, 4, 5, 6>>,
      g_internal_prefix \o <<17, 34, 51, 68, 85, 103>>,
      <<0, 100, 255, 155>> \o Fill(8, 0),
      Fill(8, 0) \o <<255, 255, 0, 0>>,
      <<32, 2, 8, 8, 9, 9>> \o Fill(6, 0),
      <<32, 2, 10, 0, 0, 1>> \o Fill(6, 0),
      <<32, 1, 13, 184>> \o Fill(8, 0),
      <<254, 128>> \o Fill(10, 0),
      <<254, 128, 0, 0, 0, 0, 0, 1, 0, 0, 0, 0>>,
      <<252>> \o Fill(11, 0),
      <<253>> \o Fill(11, 0),
      <<32, 1, 0, 16>> \o Fill(8, 0),
      <<32, 1, 0, 32>> \o Fill(8, 0),
      <<32, 1, 0, 48>> \o Fill(8, 0),
      <<42, 0, 20, 81, 64, 1, 0, 0, 0, 0, 0, 0>> }

V6Tails == {<<h, h, h, x>> : h \in {0, 8, 247}, x \in Low}

V6Inputs == {h \o t : h \in V6Heads, t \in V6Tails}

\* names for SetInternal; the empty one is refused
NameInputs == {<<>>, <<"x">>, <<"s", "e", "e", "d">>}

\* names for SetSpecial: two onion names, and names that are refused for a missing
\* suffix, a name that is the suffix alone, a short label and a stray character;
\* a 17-character label still decodes to 10 bytes
OnionNameInputs ==
    { Rep("a", 16) \o DotOnion,
      <<"3", "g", "2", "u", "p", "l", "4", "p", "q", "6", "k", "u", "f", "c", "4", "m">>
          \o DotOnion,
      Rep("a", 17) \o DotOnion,
      Rep("a", 15) \o DotOnion,
      Rep("a", 8) \o <<"!">> \o Rep("a", 7) \o DotOnion,
      Rep("a", 16) \o <<".", "c", "o", "m">>,
      DotOnion,
      <<>> }

AddrInputs == {V4(b) : b \in V4Inputs} \cup {V6(b) : b \in V6Inputs}

\* the first n bits of a byte sequence, most significant bit first
Bits(bytes, n) == [j \in 1..n |-> Bit(bytes[((j - 1) \div 8) + 1], 7 - ((j - 1) % 8))]

AsmapInputs ==
    { <<>>,
      << [prefix |-> Bits(pchIPv4 \o <<8, 8>>, 112), asn |-> 15169],
         [prefix |-> Bits(<<42, 0, 20, 80>>, 32), asn |-> 15169],
         [prefix |-> Bits(<<32, 1, 4, 112>>, 32), asn |-> 16909060] >>,
      << [prefix |-> Bits(<<42, 0, 20, 81>>, 32), asn |-> 0],
         [prefix |-> <<>>, asn |-> 2147483647] >> }

Partners ==
    { nullptr, V4(<<8, 8, 8, 1>>), V4(<<10, 0, 0, 1>>),
      V6(GenericHead \o <<0, 0, 0, 1>>), V6(SixToFourHead \o <<0, 0, 0, 1>>),
      V6(TeredoHead \o <<247, 247, 247, 1>>), V6(OnionHead \o <<8, 8, 8, 1>>),
      V6(InternalHead \o <<8, 8, 8, 1>>), V6(Fill(16, 0)) }

SubNetAddrs ==
    {V4(<<192, 168, 1, x>>) : x \in Low} \cup
    { V4(<<0, 0, 0, 0>>), V4(<<255, 255, 255, 255>>), V4(<<10, 1, 2, 3>>),
      V6(GenericHead \o <<8, 8, 8, 1>>), V6(HeNetHead \o <<247, 247, 247, 255>>),
      V6(Fill(16, 0)), V6(OnionHead \o <<8, 8, 8, 1>>),
      V6(InternalHead \o <<8, 8, 8, 1>>) }

Candidates ==
    { V4(<<192, 168, 1, 255>>), V4(<<192, 168, 2, 1>>), V4(<<192, 168, 1, 0>>),
      V4(<<0, 0, 0, 0>>), V4(<<10, 1, 2, 3>>), V4(<<10, 1, 200, 200>>),
      V6(GenericHead \o <<8, 8, 8, 1>>), V6(GenericHead \o <<0, 0, 0, 0>>),
      V6(HeNetHead \o <<247, 247, 247, 255>>), V6(Fill(16, 0)),
      V6(OnionHead \o <<8, 8, 8, 1>>), V6(OnionHead \o <<8, 8, 8, 0>>),
      V6(InternalHead \o <<8, 8, 8, 1>>) }

MaskInputs ==
    { V4(<<255, 255, 255, 0>>), V4(<<255, 255, 0, 0>>), V4(<<255, 0, 255, 0>>),
      V4(<<240, 15, 0, 0>>), V4(<<255, 255, 255, 255>>), V4(<<0, 0, 0, 0>>),
      V4(<<255, 254, 0, 0>>), V4(<<255, 253, 0, 0>>),
      V6(Fill(16, 255)), V6(Fill(4, 255) \o Fill(12, 0)), V6(Fill(15, 255) \o <<0>>),
      V6(Fill(16, 0)), V6(<<240, 15>> \o Fill(14, 0)),
      V6(<<255, 255, 0, 0, 255, 255>> \o Fill(10, 0)),
      V6(Fill(12, 0) \o <<255, 255, 255, 0>>),
      V6(Fill(12, 255) \o <<255, 255, 255, 0>>),
      V6(Fill(12, 255) \o <<255, 0, 255, 0>>),
      V6(Fill(13, 255) \o <<128, 0, 0>>),
      V6(pchOnionCat \o Fill(10, 0)) }

\* operator==(const CSubNet &, const CSubNet &)
CSubNetEq(a, b) ==
    (a.valid <=> b.valid) /\ CNetAddrEq(a.network, b.network)
        /\ MemCmp(a.netmask, b.netmask, 16) = 0

\* operator<(const CSubNet &, const CSubNet &)
CSubNetLess(a, b) ==
    CNetAddrLess(a.network, b.network)
        \/ (CNetAddrEq(a.network, b.network) /\ MemCmp(a.netmask, b.netmask, 16) < 0)

\* what an unwritten netmask member may hold
UninitBytes == {Fill(16, 0), Fill(16, 255), Fill(16, 165)}

PrefixLengths == (0 - MaxExcess)..(128 + MaxExcess)

\* right-hand operands of the subnet comparisons
OtherSubNets ==
    LET as == {V4(<<10, 1, 2, 3>>), V4(<<0, 0, 0, 0>>), V6(GenericHead \o <<8, 8, 8, 1>>)}
    IN {CSubNetPrefix(a, n) : a \in as, n \in {0, 24, 32, 33}}
       \cup {CSubNetAddr(a) : a \in as}
       \cup {CSubNetMask(a, m, u) : a \in as,
                                    m \in {V4(<<255, 255, 255, 0>>), V4(<<255, 0, 255, 0>>)},
                                    u \in UninitBytes}

(***************************************************************************)
(* State: addr is the CNetAddr object, asmap the map handed to GetGroup    *)
(* and GetMappedAS, subnet the CSubNet object, built how it was            *)
(* constructed, ret the last call and what it returned.                    *)
(***************************************************************************)
NoSubNet == [network |-> nullptr, netmask |-> <<>>, valid |-> FALSE]

NotBuilt == [ctor |-> "none", n |-> 0, mask |-> nullptr]

Returned(op, arg, val) == [op |-> op, arg |-> arg, val |-> val]

Init ==
    /\ addr \in AddrInputs
    /\ asmap \in AsmapInputs
    /\ subnet = NoSubNet
    /\ built = NotBuilt
    /\ ret = Returned("CNetAddr", nullptr, "void")

CallSetRawIPv4 ==
    \E b \in V4Inputs :
        /\ addr' = SetRaw(NET_IPV4, b)
        /\ ret' = Returned("SetRaw", nullptr, "void")
        /\ UNCHANGED <<asmap, subnet, built>>

CallSetRawIPv6 ==
    \E b \in V6Inputs :
        /\ addr' = SetRaw(NET_IPV6, b)
        /\ ret' = Returned("SetRaw", nullptr, "void")
        /\ UNCHANGED <<asmap, subnet, built>>

CallIsValid ==
    /\ ret' = Returned("IsValid", nullptr, IsValid(addr))
    /\ UNCHANGED <<addr, asmap, subnet, built>>

CallIsRoutable ==
    /\ ret' = Returned("IsRoutable", nullptr, IsRoutable(addr))
    /\ UNCHANGED <<addr, asmap, subnet, built>>

CallGetNetClass ==
    /\ ret' = Returned("GetNetClass", nullptr, GetNetClass(addr))
    /\ UNCHANGED <<addr, asmap, subnet, built>>

CallGetMappedAS ==
    /\ ret' = Returned("GetMappedAS", nullptr, GetMappedAS(addr, asmap))
    /\ UNCHANGED <<addr, asmap, subnet, built>>

CallGetGroup ==
    /\ ret' = Returned("GetGroup", nullptr, GetGroup(addr, asmap))
    /\ UNCHANGED <<addr, asmap, subnet, built>>

CallGetReachabilityFrom ==
    \E p \in Partners :
        /\ ret' = Returned("GetReachabilityFrom", p, GetReachabilityFrom(addr, p))
        /\ UNCHANGED <<addr, asmap, subnet, built>>

Next ==
    \/ CallSetRawIPv4
    \/ CallSetRawIPv6
    \/ CallIsValid
    \/ CallIsRoutable
    \/ CallGetNetClass
    \/ CallGetMappedAS
    \/ CallGetGroup
    \/ CallGetReachabilityFrom

Spec == Init /\ [][Next]_vars

(***************************************************************************)
(* The subnet specification: a CSubNet is constructed once from addr, then *)
(* queried.                                                                *)
(***************************************************************************)
InitSubNet ==
    /\ addr \in SubNetAddrs
    /\ asmap = <<>>
    /\ subnet = NoSubNet
    /\ built = NotBuilt
    /\ ret = Returned("CNetAddr", nullptr, "void")

NewSubNetPrefix ==
    \E n \in PrefixLengths :
        /\ built.ctor = "none"
        /\ subnet' = CSubNetPrefix(addr, n)
        /\ built' = [ctor |-> "prefix", n |-> n, mask |-> nullptr]
        /\ ret' = Returned("CSubNet", nullptr, "void")
        /\ UNCHANGED <<addr, asmap>>

NewSubNetMask ==
    \E mask \in MaskInputs, uninit \in UninitBytes :
        /\ built.ctor = "none"
        /\ subnet' = CSubNetMask(addr, mask, uninit)
        /\ built' = [ctor |-> "mask", n |-> 0, mask |-> mask]
        /\ ret' = Returned("CSubNet", nullptr, "void")
        /\ UNCHANGED <<addr, asmap>>

NewSubNetAddr ==
    /\ built.ctor = "none"
    /\ subnet' = CSubNetAddr(addr)
    /\ built' = [ctor |-> "addr", n |-> 0, mask |-> nullptr]
    /\ ret' = Returned("CSubNet", nullptr, "void")
    /\ UNCHANGED <<addr, asmap>>

CallMatch ==
    \E c \in Candidates :
        /\ built.ctor # "none"
        /\ ret' = Returned("Match", c, Match(subnet, c))
        /\ UNCHANGED <<addr, asmap, subnet, built>>

CallToString ==
    /\ built.ctor # "none"
    /\ ret' = Returned("ToString", nullptr, ToString(subnet))
    /\ UNCHANGED <<addr, asmap, subnet, built>>

\* the subnet compared with another one, built by any of the three constructors
CallCompare ==
    \E b \in OtherSubNets :
        /\ built.ctor # "none"
        /\ ret' = Returned("compare", b,
                           [lt |-> CSubNetLess(subnet, b),
                            eq |-> CSubNetEq(subnet, b),
                            gt |-> CSubNetLess(b, subnet)])
        /\ UNCHANGED <<addr, asmap, subnet, built>>

NextSubNet ==
    \/ CallCompare
    \/ NewSubNetPrefix
    \/ NewSubNetMask
    \/ NewSubNetAddr
    \/ CallMatch
    \/ CallToString

SpecSubNet == InitSubNet /\ [][NextSubNet]_vars

(***************************************************************************)
(* Claims.                                                                 *)
(***************************************************************************)
\* bit p (0 the most significant bit of byte 0) of a 16-byte mask
MaskBit(netmask, p) == Bit(netmask[(p \div 8) + 1], 7 - (p % 8))

\* one-bits followed only by zero-bits from byte `from' on
Contiguous(netmask, from) ==
    \A p \in (from * 8)..126 : MaskBit(netmask, p) = 0 => MaskBit(netmask, p + 1) = 0

FamilyOffset(a) == IF a.m_net = NET_IPV4 THEN 12 ELSE 0

NetClassChain(a) ==
    IF IsLocal(a) THEN 255
    ELSE IF IsInternal(a) THEN NET_INTERNAL
    ELSE IF ~IsRoutable(a) THEN NET_UNROUTABLE
    ELSE IF HasLinkedIPv4(a) THEN NET_IPV4
    ELSE IF IsTor(a) THEN NET_ONION
    ELSE NET_IPV6

\* C1: GetNetClass returns the first matching entry of the chain 255 if IsLocal,
\* NET_INTERNAL if IsInternal, NET_UNROUTABLE if not IsRoutable, NET_IPV4 if
\* HasLinkedIPv4, NET_ONION if IsTor, else NET_IPV6; so a loopback address has
\* net class 255.
C1_NetClassChain ==
    ret.op = "GetNetClass" => ret.val = NetClassChain(addr)

\* C2: a valid subnet built from (address, mask address) stores a mask that, from
\* the network's family offset on, is one-bits followed only by zero-bits.
C2_ValidMaskContiguous ==
    (built.ctor = "mask" /\ subnet.valid)
        => Contiguous(subnet.netmask, FamilyOffset(subnet.network))

\* C3: Match returns true iff the subnet is valid, the candidate IsValid, the
\* families are equal and (candidate.bytes[i] & mask[i]) = network.bytes[i] for all
\* 16 bytes; so an invalid subnet matches no candidate, and 192.168.1.0/24 matches
\* 192.168.1.255 but not 192.168.2.1.
C3_MatchIff ==
    ret.op = "Match" =>
        /\ ret.val = (/\ subnet.valid
                      /\ IsValid(ret.arg)
                      /\ ret.arg.m_net = subnet.network.m_net
                      /\ \A i \in 1..16 :
                            BitAnd(ret.arg.ip[i], subnet.netmask[i]) = subnet.network.ip[i])
        /\ ~subnet.valid => ret.val = FALSE
        /\ (built.ctor = "prefix" /\ built.n = 24 /\ addr = V4(<<192, 168, 1, 0>>))
              => /\ ret.arg = V4(<<192, 168, 1, 255>>) => ret.val = TRUE
                 /\ ret.arg = V4(<<192, 168, 2, 1>>) => ret.val = FALSE

C3_Witness ==
    /\ ret.op = "Match"
    /\ built.ctor = "prefix" /\ built.n = 24 /\ addr = V4(<<192, 168, 1, 0>>)
    /\ ret.arg = V4(<<192, 168, 1, 255>>)
    /\ ret.val = TRUE

\* the AS number's 4 bytes, least significant first
AsnLE(asn) ==
    <<asn % 256, (asn \div 256) % 256, (asn \div 65536) % 256, (asn \div 16777216) % 256>>

Mappable(a) == GetNetClass(a) = NET_IPV4 \/ GetNetClass(a) = NET_IPV6

\* C4: when GetMappedAS is nonzero, GetGroup returns the 5 bytes NET_IPV6 and the AS
\* number least-significant byte first, whatever the address (so an IPv4 and an IPv6
\* address of the same AS share the key); with an empty asmap or a net class other
\* than NET_IPV4 / NET_IPV6, GetMappedAS returns 0 and the key keeps its net-class tag.
C4_AsnGroup ==
    /\ (ret.op = "GetGroup" /\ GetMappedAS(addr, asmap) # 0)
          => /\ Len(ret.val) = 5
             /\ ret.val = <<NET_IPV6>> \o AsnLE(GetMappedAS(addr, asmap))
             /\ \A b \in {V4(<<8, 8, 8, 1>>), V6(GenericHead \o <<0, 0, 0, 1>>)} :
                    GetMappedAS(b, asmap) = GetMappedAS(addr, asmap)
                        => GetGroup(b, asmap) = ret.val
    /\ (ret.op = "GetMappedAS" /\ (Len(asmap) = 0 \/ ~Mappable(addr)))
          => ret.val = 0
    /\ (ret.op = "GetGroup" /\ (Len(asmap) = 0 \/ ~Mappable(addr)))
          => /\ ret.val[1] = GetNetClass(addr)
             /\ ~Mappable(addr) => ret.val[1] # NET_IPV6

C4_Witness ==
    /\ ret.op = "GetGroup"
    /\ addr = V6(GenericHead \o <<0, 0, 0, 1>>)
    /\ GetMappedAS(addr, asmap) = 15169
    /\ GetMappedAS(V4(<<8, 8, 8, 1>>), asmap) = 15169
    /\ ret.val = <<NET_IPV6, 65, 59, 0, 0>>

\* the top 2 octets of the IPv4 address an encoding embeds
EmbeddedTop2(a) ==
    IF IsRFC3964(a) THEN <<a.ip[3], a.ip[4]>>
    ELSE IF IsRFC4380(a) THEN <<255 - a.ip[13], 255 - a.ip[14]>>
    ELSE <<a.ip[13], a.ip[14]>>

\* C5: with no asmap, an address with HasLinkedIPv4 gets the key
\* [NET_IPV4, octet1, octet2] of its embedded IPv4 address, so two such addresses
\* whose embedded addresses agree in the top 2 octets get the same key.
C5_LinkedIPv4Group ==
    (ret.op = "GetGroup" /\ Len(asmap) = 0 /\ HasLinkedIPv4(addr))
        => /\ ret.val = <<NET_IPV4>> \o EmbeddedTop2(addr)
           /\ \A b \in AddrInputs :
                  (/\ HasLinkedIPv4(b)
                   /\ SubSeq(GetLinkedIPv4(b), 1, 2) = SubSeq(GetLinkedIPv4(addr), 1, 2))
                      => GetGroup(b, <<>>) = ret.val

C5_Witness ==
    /\ ret.op = "GetGroup" /\ Len(asmap) = 0
    /\ addr = V6(TeredoHead \o <<247, 247, 247, 255>>)
    /\ HasLinkedIPv4(addr)
    /\ ret.val = <<NET_IPV4, 8, 8>>
    /\ GetGroup(V4(<<8, 8, 9, 1>>), <<>>) = ret.val

\* the extended class of a partner, and of a routable non-internal address
PartnerClass(p) ==
    IF p = nullptr THEN "Unknown"
    ELSE IF IsRFC4380(p) THEN "Teredo"
    ELSE IF IsInternal(p) THEN "Internal"
    ELSE IF ~IsRoutable(p) THEN "Unroutable"
    ELSE IF p.m_net = NET_IPV4 THEN "IPv4"
    ELSE IF p.m_net = NET_IPV6 THEN "IPv6"
    ELSE "Onion"

ThisClass(a) ==
    IF IsRFC4380(a) THEN "Teredo"
    ELSE IF a.m_net = NET_IPV4 THEN "IPv4"
    ELSE IF a.m_net = NET_IPV6 THEN "IPv6"
    ELSE "Onion"

Tunneled(a) == IsRFC3964(a) \/ IsRFC6052(a) \/ IsRFC6145(a)

ReachTable(partner, this, tunneled) ==
    CASE partner = "IPv4" ->
            IF this = "IPv4" THEN REACH_IPV4 ELSE REACH_DEFAULT
      [] partner = "IPv6" ->
            IF this = "Teredo" THEN REACH_TEREDO
            ELSE IF this = "IPv4" THEN REACH_IPV4
            ELSE IF this = "IPv6" /\ ~tunneled THEN REACH_IPV6_STRONG
            ELSE IF this = "IPv6" /\ tunneled THEN REACH_IPV6_WEAK
            ELSE REACH_DEFAULT
      [] partner = "Onion" ->
            IF this = "Onion" THEN REACH_PRIVATE
            ELSE IF this = "IPv4" THEN REACH_IPV4
            ELSE REACH_DEFAULT
      [] partner = "Teredo" ->
            IF this = "Teredo" THEN REACH_TEREDO
            ELSE IF this = "IPv6" THEN REACH_IPV6_WEAK
            ELSE IF this = "IPv4" THEN REACH_IPV4
            ELSE REACH_DEFAULT
      [] partner \in {"Unknown", "Unroutable", "Internal"} ->
            IF this = "Teredo" THEN REACH_TEREDO
            ELSE IF this = "IPv6" THEN REACH_IPV6_WEAK
            ELSE IF this = "IPv4" THEN REACH_IPV4
            ELSE IF this = "Onion" THEN REACH_PRIVATE
            ELSE REACH_DEFAULT

\* C6: for a routable, non-internal address the score is the fixed table over the
\* partner's extended class and the address's extended class (an RFC4380 address is
\* Teredo, a null partner Unknown).
C6_ReachTable ==
    (ret.op = "GetReachabilityFrom" /\ IsRoutable(addr) /\ ~IsInternal(addr))
        => ret.val = ReachTable(PartnerClass(ret.arg), ThisClass(addr), Tunneled(addr))

C6_Witness ==
    /\ ret.op = "GetReachabilityFrom"
    /\ IsRoutable(addr) /\ IsIPv6(addr) /\ IsRFC3964(addr)
    /\ PartnerClass(ret.arg) = "IPv6"
    /\ ret.val = REACH_IPV6_WEAK

\* C7: the score is Unreachable, the lowest ordinal, for every partner (a null one
\* too) when the address is not routable or is internal, and above it otherwise.
C7_UnreachableIff ==
    ret.op = "GetReachabilityFrom" =>
        /\ (~IsRoutable(addr) \/ IsInternal(addr)) => ret.val = REACH_UNREACHABLE
        /\ IsRoutable(addr) => ret.val > REACH_UNREACHABLE
        /\ ret.val = REACH_UNREACHABLE <=> ~IsRoutable(addr)
        /\ ret.val >= REACH_UNREACHABLE /\ ret.val <= REACH_PRIVATE

C7_Witness ==
    /\ ret.op = "GetReachabilityFrom"
    /\ ret.arg = nullptr
    /\ addr = V4(<<10, 0, 0, 1>>)
    /\ ret.val = REACH_UNREACHABLE

\* C8: the (address, n) constructor yields valid iff 0 <= n <= 32 for IPv4 and
\* 0 <= n <= 128 otherwise; a valid one stores 0xFF before the family offset and
\* exactly n one-bits then zero-bits from it on, and ToString's prefix length is n.
C8_PrefixCtor ==
    built.ctor = "prefix" =>
        /\ subnet.valid <=> (built.n >= 0 /\ built.n <= (IF IsIPv4(addr) THEN 32 ELSE 128))
        /\ subnet.valid =>
              /\ \A p \in 0..127 :
                    MaskBit(subnet.netmask, p) =
                        (IF p < FamilyOffset(addr) * 8 + built.n THEN 1 ELSE 0)
              /\ ToString(subnet).cidr = built.n
              /\ ret.op = "ToString" => ret.val.cidr = built.n

C8_Witness ==
    /\ built.ctor = "prefix" /\ built.n = 23 /\ IsIPv4(addr)
    /\ subnet.valid
    /\ subnet.netmask = Fill(14, 255) \o <<254, 0>>
    /\ ret.op = "ToString" /\ ret.val.cidr = 23

\* C9: after any of the three constructors, valid or not,
\* network.bytes[i] & mask[i] = network.bytes[i] for all 16 bytes.
C9_NetworkNormalized ==
    built.ctor # "none" =>
        \A i \in 1..16 : BitAnd(subnet.network.ip[i], subnet.netmask[i]) = subnet.network.ip[i]

\* C10: IsRoutable implies IsValid, strictly: 10.0.0.1 (RFC1918) is valid and not
\* routable.
C10_RoutableValid ==
    ret.op = "IsRoutable" =>
        /\ ret.val = TRUE => IsValid(addr)
        /\ addr = V4(<<10, 0, 0, 1>>) => (IsRFC1918(addr) /\ IsValid(addr) /\ ret.val = FALSE)

C10_Witness ==
    /\ ret.op = "IsRoutable"
    /\ addr = V4(<<10, 0, 0, 1>>)
    /\ IsValid(addr)
    /\ ret.val = FALSE

\* C11: for a valid address the exact-match subnet CSubNet(addr) is valid, has an
\* all-ones mask and matches addr; for an invalid address CSubNet(addr) is invalid.
C11_ExactMatchSubNet ==
    built.ctor = "addr" =>
        /\ subnet.valid <=> IsValid(addr)
        /\ subnet.netmask = Fill(16, 255)
        /\ IsValid(addr) => Match(subnet, addr)
        /\ (ret.op = "Match" /\ ret.arg = addr) => (ret.val <=> IsValid(addr))

C11_Witness ==
    /\ built.ctor = "addr"
    /\ IsValid(addr) /\ IsTor(addr)
    /\ ret.op = "Match" /\ ret.arg = addr /\ ret.val = TRUE

\* the key the prefix policy gives an address without a linked IPv4 address
PolicyKey(a) ==
    LET tag == GetNetClass(a)
    IN IF IsLocal(a) \/ (~IsRoutable(a) /\ ~IsInternal(a)) THEN <<tag>>
       ELSE IF IsInternal(a) THEN <<tag>> \o SubSeq(a.ip, 7, 16)
       ELSE IF IsTor(a) THEN <<tag, BitOr(a.ip[7], 15)>>
       ELSE IF IsHeNet(a) THEN <<tag>> \o SubSeq(a.ip, 1, 4) \o <<BitOr(a.ip[5], 15)>>
       ELSE <<tag>> \o SubSeq(a.ip, 1, 4)

\* C12: with no nonzero AS number and no linked IPv4 address, GetGroup returns the
\* GetNetClass tag followed by: nothing for local and other unroutable non-internal
\* addresses; the 10 bytes after the prefix for internal ones; stored[6] | 0x0F for
\* Tor; stored[0..3], stored[4] | 0x0F for He.net; stored[0..3] for other IPv6.
C12_PolicyGroup ==
    (ret.op = "GetGroup" /\ GetMappedAS(addr, asmap) = 0 /\ ~HasLinkedIPv4(addr))
        => /\ ret.val = PolicyKey(addr)
           /\ Len(ret.val) = (IF IsLocal(addr) \/ (~IsRoutable(addr) /\ ~IsInternal(addr))
                              THEN 1
                              ELSE IF IsInternal(addr) THEN 11
                              ELSE IF IsTor(addr) THEN 2
                              ELSE IF IsHeNet(addr) THEN 6
                              ELSE 5)
           /\ \A b \in AddrInputs :
                  (IsInternal(addr) /\ IsInternal(b) /\ GetGroup(b, asmap) = ret.val)
                      => b.ip = addr.ip

C12_Witness ==
    /\ ret.op = "GetGroup" /\ GetMappedAS(addr, asmap) = 0
    /\ IsRoutable(addr) /\ IsHeNet(addr)
    /\ addr.ip[5] = 31
    /\ ret.val = <<NET_IPV6, 32, 1, 4, 112, 31>>

\* the IPv4 address the spec says is linked to an address, from the stored bytes
LinkedValue(a) ==
    IF IsRFC3964(a) THEN <<a.ip[3], a.ip[4], a.ip[5], a.ip[6]>>
    ELSE IF IsRFC4380(a)
    THEN <<255 - a.ip[13], 255 - a.ip[14], 255 - a.ip[15], 255 - a.ip[16]>>
    ELSE <<a.ip[13], a.ip[14], a.ip[15], a.ip[16]>>

IsUint32(x) == Len(x) = 4 /\ \A i \in 1..4 : x[i] \in 0..255

\* C14: GetGroup and GetMappedAS never reach the assert(false) of GetLinkedIPv4:
\* they call it only when HasLinkedIPv4 holds, and then it returns the last 4 bytes
\* (IPv4, RFC6145, RFC6052), bytes 2..5 (RFC3964) or the complement of the last 4
\* bytes (RFC4380), big-endian.
C14_LinkedIPv4Returns ==
    /\ (ret.op = "GetMappedAS" /\ GetMappedASCallsGetLinkedIPv4(addr, asmap))
           => IsUint32(GetLinkedIPv4(addr))
    /\ (ret.op = "GetGroup" /\ GetGroupCallsGetLinkedIPv4(addr, asmap))
           => IsUint32(GetLinkedIPv4(addr))
    /\ ret.op = "GetGroup" => \A i \in 1..Len(ret.val) : ret.val[i] \in 0..255
    /\ (ret.op \in {"GetGroup", "GetMappedAS"} /\ HasLinkedIPv4(addr))
           => /\ IsIPv4(addr) \/ IsRFC6145(addr) \/ IsRFC6052(addr)
                     \/ IsRFC3964(addr) \/ IsRFC4380(addr)
              /\ GetLinkedIPv4(addr) = LinkedValue(addr)

C14_Witness ==
    /\ ret.op = "GetGroup"
    /\ GetGroupCallsGetLinkedIPv4(addr, asmap)
    /\ ~GetMappedASCallsGetLinkedIPv4(addr, asmap)
    /\ IsRFC4380(addr)
    /\ GetLinkedIPv4(addr) = <<247, 247, 247, 254>>
    /\ ret.val = <<NET_IPV4, 247, 247>>

\* the address-setting operations, from a default-constructed address
SetIPInputs ==
    AddrInputs
    \cup {DefaultCNetAddr}
    \cup {SetInternal(DefaultCNetAddr, n).this : n \in NameInputs}
    \cup {SetSpecial(DefaultCNetAddr, n).this : n \in OnionNameInputs}

InitSet ==
    /\ addr = DefaultCNetAddr
    /\ asmap = <<>>
    /\ subnet = NoSubNet
    /\ built = NotBuilt
    /\ ret = Returned("CNetAddr", nullptr, "void")

CallSetLegacyIPv6 ==
    \E b \in V6Inputs :
        /\ addr' = SetLegacyIPv6(b)
        /\ ret' = Returned("SetLegacyIPv6", nullptr, "void")
        /\ UNCHANGED <<asmap, subnet, built>>

CallSetInternal ==
    \E name \in NameInputs :
        /\ addr' = SetInternal(addr, name).this
        /\ ret' = Returned("SetInternal", name, SetInternal(addr, name).ret)
        /\ UNCHANGED <<asmap, subnet, built>>

CallSetSpecial ==
    \E strName \in OnionNameInputs :
        /\ addr' = SetSpecial(addr, strName).this
        /\ ret' = Returned("SetSpecial", strName, SetSpecial(addr, strName).ret)
        /\ UNCHANGED <<asmap, subnet, built>>

CallSetIP ==
    \E ipIn \in SetIPInputs :
        /\ addr' = SetIP(ipIn)
        /\ ret' = Returned("SetIP", ipIn, "void")
        /\ UNCHANGED <<asmap, subnet, built>>

NextSet ==
    \/ CallSetRawIPv4
    \/ CallSetRawIPv6
    \/ CallSetLegacyIPv6
    \/ CallSetInternal
    \/ CallSetSpecial
    \/ CallSetIP

SpecSet == InitSet /\ [][NextSet]_vars

\* the family tag is the one the stored bytes' prefix stands for
FamilyAgrees(a) ==
    /\ a.m_net = NET_IPV4 <=> PrefixEq(a.ip, pchIPv4, 12)
    /\ a.m_net = NET_ONION <=> PrefixEq(a.ip, pchOnionCat, 6)
    /\ a.m_net = NET_INTERNAL <=> PrefixEq(a.ip, g_internal_prefix, 6)
    /\ a.m_net = NET_IPV6 <=>
           ~(PrefixEq(a.ip, pchIPv4, 12) \/ PrefixEq(a.ip, pchOnionCat, 6)
             \/ PrefixEq(a.ip, g_internal_prefix, 6))

\* a call of SetInternal or SetSpecial has just returned false
Refused(r) == r.op \in {"SetInternal", "SetSpecial"} /\ r.val = FALSE

\* C13: after any sequence of address-setting operations the family tag agrees with
\* the stored bytes (IPv4, onion, internal prefix, IPv6 otherwise), and a refused
\* SetInternal or SetSpecial leaves family and bytes unchanged.
C13_FamilyAgrees ==
    /\ [](FamilyAgrees(addr) /\ Len(addr.ip) = 16)
    /\ [][Refused(ret') => addr' = addr]_vars

C13_Witness ==
    /\ ret.op = "SetSpecial" /\ ret.val = TRUE
    /\ addr = [m_net |-> NET_ONION,
               ip |-> pchOnionCat \o <<217, 181, 71, 175, 143, 135, 149, 66, 139, 140>>]

C13_WitnessRefused ==
    /\ ret.op = "SetSpecial" /\ ret.val = FALSE
    /\ ret.arg = Rep("a", 15) \o DotOnion
    /\ addr.m_net = NET_INTERNAL

\* C15: for any two subnets from the three constructors exactly one of a < b,
\* a == b, b < a holds.
C15_Trichotomy ==
    ret.op = "compare" =>
        \/ ret.val.lt /\ ~ret.val.eq /\ ~ret.val.gt
        \/ ~ret.val.lt /\ ret.val.eq /\ ~ret.val.gt
        \/ ~ret.val.lt /\ ~ret.val.eq /\ ret.val.gt

=============================================================================
